---- MODULE Spec2Model ----
(***************************************************************************)
(* Model of the Cerebrosso glue scripts:                                   *)
(*   - scripts/setup-helius-webhooks.py  (webhook provisioning, main)      *)
(*   - test_weighted_signals.py          (integration-test driver)         *)
(* and of the pipeline components the test driver exercises                *)
(* (ActionClassifier, SignalWeighter, AIRouter), which are not part of the *)
(* two scripts and are modelled from the specification.                    *)
(***************************************************************************)
EXTENDS Integers, Sequences, FiniteSets, TLC

VARIABLES
  \* ---- setup-helius-webhooks.py: main ----
  spc,                \* position in main
  api_key,            \* os.getenv("HELIUS_API_KEY"): "" when unset
  webhook_base_url,   \* os.getenv("WEBHOOK_BASE_URL", default)
  answer_default,     \* input("Continue with default URL? (y/N): ")
  answer_proceed,     \* input("Proceed with webhook creation? (y/N): ")
  vidx,               \* next config to validate
  validation_failed,  \* some validate_webhook_url returned False
  list_outcome,       \* what list_webhooks met
  cidx,               \* next config to create
  created_webhooks,   \* main's list of truthy create_webhook results
  webhook_ids_file,   \* contents of webhook_ids.json, or NoFile
  summary,            \* the counts main prints
  trace,              \* external effects of the run, in order
  \* ---- test_weighted_signals.py: main ----
  tpc,                \* position in main
  calls,              \* the test functions called so far, in order
  health_resp,        \* what the two health probes met
  sniper_resp,        \* what GET /test/sniper met
  cerebro_resp,       \* what POST /api/v1/analyze/tokens met
  sniper_success,     \* test_sniper_engine's return value
  cerebro_success,    \* test_cerebro_bff_endpoint's return value
  payload,            \* token_profiles of the request sent, <<>> before
  ai_decisions,       \* data.get('ai_decisions', []) of the response
  reports,            \* what the consumer loop printed, per entry
  exit_code,          \* main's return value, -1 before
  \* ---- ActionClassifier ----
  in_score,           \* weighted_score, in hundredths
  in_risk_score,      \* risk_score, in hundredths
  in_risk_level,      \* Low | Medium | High
  in_recommended,     \* the recommended_action the profile carries, if any
  out_action,         \* the classifier's answer, NotClassified before
  \* ---- AIRouter ----
  batch,              \* the submitted profiles, in submission order
  req,                \* per input index: the state of its request
  slots,              \* per input index: its decision, NoDecision before
  completion,         \* the input indices in the order they were settled
  response            \* the response, once assembled

setupVars == <<spc, api_key, webhook_base_url, answer_default, answer_proceed,
               vidx, validation_failed, list_outcome, cidx, created_webhooks,
               webhook_ids_file, summary, trace>>

testVars == <<tpc, calls, health_resp, sniper_resp, cerebro_resp, sniper_success,
              cerebro_success, payload, ai_decisions, reports, exit_code>>

classVars == <<in_score, in_risk_score, in_risk_level, in_recommended, out_action>>

routerVars == <<batch, req, slots, completion, response>>

vars == <<setupVars, testVars, classVars, routerVars>>

(***************************************************************************)
(*                    scripts/setup-helius-webhooks.py                     *)
(***************************************************************************)

\* get_webhook_configs returns five WebhookConfig values.
NumConfigs == 5

Configs == 1..NumConfigs

DefaultBaseUrl == "https://your-domain.com"

CustomBaseUrl == "https://hooks.example.org"

Unasked == "unasked"

\* What a user may type at a (y/N) prompt.
Answers == {"y", "Y", "n", ""}

\* str.lower() on the answers above.
Lower(s) == IF s = "Y" THEN "y" ELSE s

NoFile == [written |-> FALSE, contents |-> <<>>]

None == [none |-> TRUE, keys |-> {}, id |-> 0]

\* A JSON object returned by the provider: its keys and the webhook it names.
Dict(keys, id) == [none |-> FALSE, keys |-> keys, id |-> id]

\* Python truthiness of an Optional[Dict]: None and {} are falsy.
Truthy(x) == ~x.none /\ x.keys # {}

\* What the provider may answer to the creation POST of config i.
PostResponses(i) ==
  { [kind |-> "ok",        status |-> 200, body |-> Dict({"webhookID", "webhookURL"}, i)],
    [kind |-> "empty",     status |-> 200, body |-> Dict({}, i)],
    [kind |-> "non200",    status |-> 429, body |-> None],
    [kind |-> "exception", status |-> 0,   body |-> None] }

\* HeliusWebhookManager.create_webhook: the response body on status 200,
\* None on any other status or on an exception; never raises.
create_webhook(resp) ==
  IF resp.kind = "exception" THEN None
  ELSE IF resp.status = 200 THEN resp.body
  ELSE None

\* HeliusWebhookManager.validate_webhook_url: True on 200/404/405, False on
\* any other status or on an exception.
ValidateOutcomes == {200, 404, 405, 500, 0}

validate_webhook_url(status) == status \in {200, 404, 405}

\* HeliusWebhookManager.list_webhooks: the list on 200, [] otherwise.
ListOutcomes == {"found", "empty", "non200", "exception"}

Event(op, cfg, res) == [op |-> op, cfg |-> cfg, res |-> res]

\* main, lines 165-173: the API key check.
CheckApiKey ==
  /\ spc = "start"
  /\ spc' = IF api_key = "" THEN "exit1"
            ELSE IF webhook_base_url = DefaultBaseUrl THEN "ask_default"
            ELSE "validate"
  /\ UNCHANGED <<api_key, webhook_base_url, answer_default, answer_proceed,
                 vidx, validation_failed, list_outcome, cidx, created_webhooks,
                 webhook_ids_file, summary, trace>>
  /\ UNCHANGED <<testVars, classVars, routerVars>>

\* main, lines 175-182: the default-URL prompt.
AskDefault ==
  /\ spc = "ask_default"
  /\ \E a \in Answers :
       /\ answer_default' = a
       /\ spc' = IF Lower(a) # "y" THEN "exit1" ELSE "validate"
  /\ UNCHANGED <<api_key, webhook_base_url, answer_proceed,
                 vidx, validation_failed, list_outcome, cidx, created_webhooks,
                 webhook_ids_file, summary, trace>>
  /\ UNCHANGED <<testVars, classVars, routerVars>>

\* main, lines 195-199: one iteration of the validation loop.
ValidateStep ==
  /\ spc = "validate"
  /\ \E st \in ValidateOutcomes :
       validation_failed' = (validation_failed \/ ~validate_webhook_url(st))
  /\ trace' = Append(trace, Event("validate", vidx, ""))
  /\ vidx' = vidx + 1
  /\ spc' = IF vidx = NumConfigs THEN "list" ELSE "validate"
  /\ UNCHANGED <<api_key, webhook_base_url, answer_default, answer_proceed,
                 list_outcome, cidx, created_webhooks,
                 webhook_ids_file, summary>>
  /\ UNCHANGED <<testVars, classVars, routerVars>>

\* main, lines 201-209: list the existing webhooks.
ListExisting ==
  /\ spc = "list"
  /\ \E o \in ListOutcomes : list_outcome' = o
  /\ trace' = Append(trace, Event("list", 0, ""))
  /\ spc' = "ask_proceed"
  /\ UNCHANGED <<api_key, webhook_base_url, answer_default, answer_proceed,
                 vidx, validation_failed, cidx, created_webhooks,
                 webhook_ids_file, summary>>
  /\ UNCHANGED <<testVars, classVars, routerVars>>

\* The confirmation prompt without its exit: creation goes ahead whatever
\* the answer.
AskProceedNoExit ==
  /\ spc = "ask_proceed"
  /\ \E a \in Answers :
       /\ answer_proceed' = a
       /\ spc' = "create"
  /\ UNCHANGED <<api_key, webhook_base_url, answer_default,
                 vidx, validation_failed, list_outcome, cidx, created_webhooks,
                 webhook_ids_file, summary, trace>>
  /\ UNCHANGED <<testVars, classVars, routerVars>>

\* main, lines 211-216: the confirmation prompt.
AskProceed ==
  /\ spc = "ask_proceed"
  /\ \E a \in Answers :
       /\ answer_proceed' = a
       /\ spc' = IF Lower(a) # "y" THEN "exit0" ELSE "create"
  /\ UNCHANGED <<api_key, webhook_base_url, answer_default,
                 vidx, validation_failed, list_outcome, cidx, created_webhooks,
                 webhook_ids_file, summary, trace>>
  /\ UNCHANGED <<testVars, classVars, routerVars>>

\* The effects of one iteration of the creation loop on the trace: the POST,
\* then time.sleep(1) when the result is truthy.
CreateEventsSleepAlways(i, resp) ==
  <<Event("post", i, resp.kind), Event("sleep", 0, "")>>

CreateEvents(i, resp) ==
  IF Truthy(create_webhook(resp))
  THEN <<Event("post", i, resp.kind), Event("sleep", 0, "")>>
  ELSE <<Event("post", i, resp.kind)>>

\* main, lines 222-228: one iteration of the creation loop.
CreateStep ==
  /\ spc = "create"
  /\ \E resp \in PostResponses(cidx) :
       LET webhook_data == create_webhook(resp) IN
         /\ created_webhooks' = IF Truthy(webhook_data)
                                THEN Append(created_webhooks, webhook_data)
                                ELSE created_webhooks
         /\ trace' = trace \o CreateEvents(cidx, resp)
  /\ cidx' = cidx + 1
  /\ spc' = IF cidx = NumConfigs THEN "summary" ELSE "create"
  /\ UNCHANGED <<api_key, webhook_base_url, answer_default, answer_proceed,
                 vidx, validation_failed, list_outcome,
                 webhook_ids_file, summary>>
  /\ UNCHANGED <<testVars, classVars, routerVars>>

\* main, lines 230-252: the summary and webhook_ids.json.
Summarize ==
  /\ spc = "summary"
  /\ summary' = [created |-> Len(created_webhooks),
                 failed  |-> NumConfigs - Len(created_webhooks)]
  /\ webhook_ids_file' = IF created_webhooks # <<>>
                         THEN [written |-> TRUE, contents |-> created_webhooks]
                         ELSE NoFile
  /\ spc' = "done"
  /\ UNCHANGED <<api_key, webhook_base_url, answer_default, answer_proceed,
                 vidx, validation_failed, list_outcome, cidx, created_webhooks,
                 trace>>
  /\ UNCHANGED <<testVars, classVars, routerVars>>

(***************************************************************************)
(*                         test_weighted_signals.py                        *)
(***************************************************************************)

\* A Signal of the mock payload. strength, confidence and weight are in
\* hundredths, weighted_strength in millionths (0.504 is 504000), so that the
\* products of the payload's numbers are exact.
Signal(type, strength, confidence, source, weight, ws, name) ==
  [signal_type |-> type, strength |-> strength, confidence |-> confidence,
   source |-> source, weight |-> weight, weighted_strength |-> ws,
   signal_name |-> name]

VolumeSpikeSignal ==
  Signal("VolumeSpike", 80, 90, "volume_analysis", 70, 504000, "volume_spike")

HighLiquiditySignal ==
  Signal("HighLiquidity", 90, 95, "liquidity_analysis", 70, 598500, "high_liquidity")

\* The same payload with weighted_strength set to strength x weight.
MockProfilesStrengthTimesWeight ==
  << [mint |-> "EPjFWdd5AufqSSqeM2qN1xzybapC8G4wEGGkZwyTDt1v",
      score |-> 85,
      signals |-> << [VolumeSpikeSignal EXCEPT !.weighted_strength = 560000] >>,
      risk_level |-> "Medium",
      recommended_action |-> "SendToCerebro",
      top_signals |-> << [HighLiquiditySignal EXCEPT !.weighted_strength = 630000],
                         [VolumeSpikeSignal EXCEPT !.weighted_strength = 560000] >>,
      potential_score |-> 75,
      risk_score |-> 25,
      weighted_score |-> 85] >>

\* The same payload recommending autonomous execution.
MockProfilesExecute ==
  << [mint |-> "EPjFWdd5AufqSSqeM2qN1xzybapC8G4wEGGkZwyTDt1v",
      score |-> 85,
      signals |-> << VolumeSpikeSignal >>,
      risk_level |-> "Medium",
      recommended_action |-> "Execute",
      top_signals |-> << HighLiquiditySignal, VolumeSpikeSignal >>,
      potential_score |-> 75,
      risk_score |-> 25,
      weighted_score |-> 85] >>

\* mock_profiles of test_cerebro_bff_endpoint (scores in hundredths).
MockProfiles ==
  << [mint |-> "EPjFWdd5AufqSSqeM2qN1xzybapC8G4wEGGkZwyTDt1v",
      score |-> 85,
      signals |-> << VolumeSpikeSignal >>,
      risk_level |-> "Medium",
      recommended_action |-> "SendToCerebro",
      top_signals |-> << HighLiquiditySignal, VolumeSpikeSignal >>,
      potential_score |-> 75,
      risk_score |-> 25,
      weighted_score |-> 85] >>

\* What an HTTP request of the driver may meet: a status, or an exception
\* (connection refused, timeout); on 200 the handling of the body may raise
\* (invalid JSON, a field of the wrong type).
HttpOutcomes ==
  { [kind |-> "ok",        status |-> 200],
    [kind |-> "bad_body",  status |-> 200],
    [kind |-> "status",    status |-> 404],
    [kind |-> "status",    status |-> 500],
    [kind |-> "exception", status |-> 0] }

NoResp == [kind |-> "none", status |-> 0]

\* Longest ai_decisions list of a response.
MaxDecisions == 2

\* One entry of ai_decisions, by the keys it carries; wf is FALSE when its
\* 'ai_decision' is not an object with a numeric confidence.
Entry(keys, wf) == [keys |-> keys, wf |-> wf]

NestedSuccess == Entry({"mint", "ai_decision"}, TRUE)

NestedMalformed == Entry({"mint", "ai_decision"}, FALSE)

ErrorEntry == Entry({"mint", "error"}, TRUE)

BothKeys == Entry({"mint", "ai_decision", "error"}, TRUE)

\* The success shape of the data model: the fields at the top level.
FlatSuccess == Entry({"mint", "action", "confidence", "agent_type", "latency_ms"}, TRUE)

EntryShapes == {NestedSuccess, NestedMalformed, ErrorEntry, BothKeys, FlatSuccess}

DecisionLists == UNION {[1..n -> EntryShapes] : n \in 0..MaxDecisions}

\* The body of the consumer loop with two independent ifs.
ClassifyEntryTwoIfs(i, e) ==
  (IF "ai_decision" \in e.keys THEN <<[idx |-> i, kind |-> "AI decision"]>> ELSE <<>>)
  \o (IF "error" \in e.keys THEN <<[idx |-> i, kind |-> "AI decision failed"]>> ELSE <<>>)

\* The body of the consumer loop, lines 120-128: what it prints for entry i.
ClassifyEntry(i, e) ==
  IF "ai_decision" \in e.keys THEN <<[idx |-> i, kind |-> "AI decision"]>>
  ELSE IF "error" \in e.keys THEN <<[idx |-> i, kind |-> "AI decision failed"]>>
  ELSE <<>>

\* Whether handling entry e raises (ai_dec.get / the :.2f format).
Raises(e) == "ai_decision" \in e.keys /\ ~e.wf

\* The consumer loop from entry k on: [printed, raised].
RECURSIVE ConsumeFrom(_, _)
ConsumeFrom(ds, k) ==
  IF k > Len(ds) THEN [printed |-> <<>>, raised |-> FALSE]
  ELSE IF Raises(ds[k]) THEN [printed |-> <<>>, raised |-> TRUE]
  ELSE LET rest == ConsumeFrom(ds, k + 1) IN
         [printed |-> ClassifyEntry(k, ds[k]) \o rest.printed,
          raised  |-> rest.raised]

\* test_sniper_engine's return value.
test_sniper_engine(resp) ==
  resp.kind = "ok" /\ resp.status = 200

\* test_cerebro_bff_endpoint's return value.
test_cerebro_bff_endpoint(resp, ds) ==
  resp.kind = "ok" /\ resp.status = 200 /\ ~ConsumeFrom(ds, 1).raised

\* main's return value with "or" for "and".
main_resultEither(s, c) == IF s \/ c THEN 0 ELSE 1

\* main's return value, lines 182-187.
main_result(s, c) == IF s /\ c THEN 0 ELSE 1

\* test_health_checks: two probes, each in its own try/except.
TestHealthChecks ==
  /\ tpc = "health"
  /\ \E h1 \in HttpOutcomes, h2 \in HttpOutcomes :
       /\ h1.kind # "bad_body" /\ h2.kind # "bad_body"
       /\ health_resp' = <<h1, h2>>
  /\ calls' = Append(calls, "test_health_checks")
  /\ tpc' = "sniper"
  /\ UNCHANGED <<sniper_resp, cerebro_resp, sniper_success, cerebro_success,
                 payload, ai_decisions, reports, exit_code>>
  /\ UNCHANGED <<setupVars, classVars, routerVars>>

\* sniper_success = test_sniper_engine()
TestSniperEngine ==
  /\ tpc = "sniper"
  /\ \E r \in HttpOutcomes :
       /\ sniper_resp' = r
       /\ sniper_success' = test_sniper_engine(r)
  /\ calls' = Append(calls, "test_sniper_engine")
  /\ tpc' = "cerebro"
  /\ UNCHANGED <<health_resp, cerebro_resp, cerebro_success,
                 payload, ai_decisions, reports, exit_code>>
  /\ UNCHANGED <<setupVars, classVars, routerVars>>

\* cerebro_success = test_cerebro_bff_endpoint()
TestCerebroBff ==
  /\ tpc = "cerebro"
  /\ payload' = MockProfiles
  /\ \E r \in HttpOutcomes :
       /\ cerebro_resp' = r
       /\ \E ds \in (IF r.kind = "ok" THEN DecisionLists ELSE {<<>>}) :
            /\ ai_decisions' = ds
            /\ reports' = ConsumeFrom(ds, 1).printed
            /\ cerebro_success' = test_cerebro_bff_endpoint(r, ds)
  /\ calls' = Append(calls, "test_cerebro_bff_endpoint")
  /\ tpc' = "summary"
  /\ UNCHANGED <<health_resp, sniper_resp, sniper_success, exit_code>>
  /\ UNCHANGED <<setupVars, classVars, routerVars>>

\* main, lines 177-187: the summary and the return value.
TestSummary ==
  /\ tpc = "summary"
  /\ exit_code' = main_result(sniper_success, cerebro_success)
  /\ tpc' = "done"
  /\ UNCHANGED <<calls, health_resp, sniper_resp, cerebro_resp, sniper_success,
                 cerebro_success, payload, ai_decisions, reports>>
  /\ UNCHANGED <<setupVars, classVars, routerVars>>

(***************************************************************************)
(*                  ActionClassifier (specification 4.4)                   *)
(***************************************************************************)

\* Scores run over 0..ScoreSteps hundredths.
ScoreSteps == 100

\* The lower bounds of the Monitor, SendToCerebro and Execute bands.
MonitorFrom == 30

SendFrom == 60

ExecuteFrom == 85

RiskLevels == {"Low", "Medium", "High"}

RecommendedActions == {"Ignore", "Monitor", "SendToCerebro", "Execute"}

NotClassified == "NotClassified"

NoRule == "NoRule"

\* The rules of the classifier, in order of precedence.
NumRules == 6

RuleMatches(k, ws, rs, rl) ==
  CASE k = 1 -> rl = "High"
    [] k = 2 -> ws < MonitorFrom
    [] k = 3 -> MonitorFrom <= ws /\ ws < SendFrom
    [] k = 4 -> SendFrom <= ws /\ ws < ExecuteFrom
    [] k = 5 -> ws >= ExecuteFrom /\ rl = "Low"
    [] k = 6 -> ws >= ExecuteFrom /\ rl # "Low"

RuleAction(k) ==
  CASE k = 1 -> "Ignore"
    [] k = 2 -> "Ignore"
    [] k = 3 -> "Monitor"
    [] k = 4 -> "SendToCerebro"
    [] k = 5 -> "Execute"
    [] k = 6 -> "SendToCerebro"

\* The action of the first rule that matches, NoRule when none does.
ActionClassifier(ws, rs, rl) ==
  LET hits == {k \in 1..NumRules : RuleMatches(k, ws, rs, rl)} IN
    IF hits = {} THEN NoRule
    ELSE RuleAction(CHOOSE k \in hits : \A j \in hits : k <= j)

RiskScores == {0, 25, 50, 100}

\* The classifier is applied to the triple it was given.
Classify ==
  /\ out_action = NotClassified
  /\ out_action' = ActionClassifier(in_score, in_risk_score, in_risk_level)
  /\ UNCHANGED <<in_score, in_risk_score, in_risk_level, in_recommended>>
  /\ UNCHANGED <<setupVars, testVars, routerVars>>

(***************************************************************************)
(*                      AIRouter (specification 4.5)                       *)
(***************************************************************************)

\* Longest batch.
MaxBatch == 3

\* Workers of the pool (8 by default; fewer here, so that requests queue).
PoolSize == 2

\* Queued requests beyond which the lowest-scored one is shed.
QueueCeiling == 1

Mints == {"mintA", "mintB", "mintC", "mintD"}

\* weighted_score of the profile of each mint, all in the SendToCerebro band.
ScoreOf(m) ==
  CASE m = "mintA" -> 70 [] m = "mintB" -> 62 [] m = "mintC" -> 81 [] OTHER -> 66

\* Batches: lists of profiles with distinct mints.
Batches ==
  UNION { {b \in [1..n -> Mints] : \A i, j \in 1..n : i # j => b[i] # b[j]}
          : n \in 0..MaxBatch }

NoSummary == [submitted |-> 0, succeeded |-> 0, failed |-> 0, dropped |-> 0]

NoDecision == [mint |-> "", shape |-> "none", error |-> ""]

SuccessDecision(m) == [mint |-> m, shape |-> "success", error |-> ""]

ErrorDecision(m, why) == [mint |-> m, shape |-> "error", error |-> why]

Idx == 1..Len(batch)

Queued == {i \in Idx : req[i] = "queued"}

InFlight == {i \in Idx : req[i] = "inflight"}

Dropped == {i \in Idx : req[i] = "dropped"}

\* A queued request of lowest weighted_score is shed when the queue is over
\* its ceiling; the drop is recorded.
Shed(i) ==
  /\ ~response.sent
  /\ i \in Queued
  /\ Cardinality(Queued) > QueueCeiling
  /\ \A j \in Queued : ScoreOf(batch[i]) <= ScoreOf(batch[j])
  /\ req' = [req EXCEPT ![i] = "dropped"]
  /\ UNCHANGED <<batch, slots, completion, response>>
  /\ UNCHANGED <<setupVars, testVars, classVars>>

\* A free worker takes the first queued request.
Dispatch(i) ==
  /\ ~response.sent
  /\ i \in Queued
  /\ \A j \in Queued : i <= j
  /\ Cardinality(InFlight) < PoolSize
  /\ req' = [req EXCEPT ![i] = "inflight"]
  /\ UNCHANGED <<batch, slots, completion, response>>
  /\ UNCHANGED <<setupVars, testVars, classVars>>

\* The gateway answers request i.
Succeed(i) ==
  /\ ~response.sent
  /\ i \in InFlight
  /\ req' = [req EXCEPT ![i] = "ok"]
  /\ slots' = [slots EXCEPT ![i] = SuccessDecision(batch[i])]
  /\ completion' = Append(completion, i)
  /\ UNCHANGED <<batch, response>>
  /\ UNCHANGED <<setupVars, testVars, classVars>>

\* A timeout that takes the rest of the batch down with it.
TimeoutAbortsBatch(i) ==
  /\ ~response.sent
  /\ i \in InFlight
  /\ req' = [j \in Idx |-> IF req[j] \in {"queued", "inflight"} THEN "timeout"
                           ELSE req[j]]
  /\ slots' = [j \in Idx |-> IF req[j] \in {"queued", "inflight"}
                             THEN ErrorDecision(batch[j], "timeout")
                             ELSE slots[j]]
  /\ completion' = Append(completion, i)
  /\ UNCHANGED <<batch, response>>
  /\ UNCHANGED <<setupVars, testVars, classVars>>

\* Request i exceeds its timeout: it is cancelled and becomes an error
\* decision for its mint.
Timeout(i) ==
  /\ ~response.sent
  /\ i \in InFlight
  /\ req' = [req EXCEPT ![i] = "timeout"]
  /\ slots' = [slots EXCEPT ![i] = ErrorDecision(batch[i], "timeout")]
  /\ completion' = Append(completion, i)
  /\ UNCHANGED <<batch, response>>
  /\ UNCHANGED <<setupVars, testVars, classVars>>

\* Request i fails upstream: an error decision for its mint.
Fail(i) ==
  /\ ~response.sent
  /\ i \in InFlight
  /\ req' = [req EXCEPT ![i] = "failed"]
  /\ slots' = [slots EXCEPT ![i] = ErrorDecision(batch[i], "upstream")]
  /\ completion' = Append(completion, i)
  /\ UNCHANGED <<batch, response>>
  /\ UNCHANGED <<setupVars, testVars, classVars>>

\* The decisions of the requests of is, an index sequence, that were not shed.
RECURSIVE DecisionsOf(_, _)
DecisionsOf(is, k) ==
  IF k > Len(is) THEN <<>>
  ELSE IF req[is[k]] = "dropped" THEN DecisionsOf(is, k + 1)
  ELSE <<slots[is[k]]>> \o DecisionsOf(is, k + 1)

\* The decision list in the order the requests were settled.
AssembleInCompletionOrder == DecisionsOf(completion, 1)

\* The decision list: one decision per request not shed, in input order.
Assemble == DecisionsOf([i \in Idx |-> i], 1)

\* Every request is settled: the response is assembled.
Respond ==
  /\ ~response.sent
  /\ Queued = {} /\ InFlight = {}
  /\ response' = [sent |-> TRUE,
                  ai_decisions |-> Assemble,
                  summary |-> [submitted |-> Len(batch),
                               succeeded |-> Cardinality({i \in Idx : req[i] = "ok"}),
                               failed |-> Cardinality({i \in Idx : req[i] \in {"timeout", "failed"}}),
                               dropped |-> Cardinality(Dropped)]]
  /\ UNCHANGED <<batch, req, slots, completion>>
  /\ UNCHANGED <<setupVars, testVars, classVars>>

(***************************************************************************)
(*                             Specifications                              *)
(***************************************************************************)

ClassifierInputs ==
  { [weighted_score |-> ws, risk_score |-> rs, risk_level |-> rl,
     recommended_action |-> "none"] :
      ws \in 0..ScoreSteps, rs \in RiskScores, rl \in RiskLevels }
  \cup
  { [weighted_score |-> MockProfiles[k].weighted_score,
     risk_score |-> MockProfiles[k].risk_score,
     risk_level |-> MockProfiles[k].risk_level,
     recommended_action |-> MockProfiles[k].recommended_action] :
      k \in 1..Len(MockProfiles) }

\* A run of scripts/setup-helius-webhooks.py: the environment and the start of main.
InitSetup ==
  /\ spc = "start"
  /\ api_key \in {"", "key"}
  /\ webhook_base_url \in {DefaultBaseUrl, CustomBaseUrl}
  /\ answer_default = Unasked
  /\ answer_proceed = Unasked
  /\ vidx = 1
  /\ validation_failed = FALSE
  /\ list_outcome = "unlisted"
  /\ cidx = 1
  /\ created_webhooks = <<>>
  /\ webhook_ids_file = NoFile
  /\ summary = [created |-> 0, failed |-> 0]
  /\ trace = <<>>
  /\ tpc = "idle"
  /\ calls = <<>>
  /\ health_resp = <<NoResp, NoResp>>
  /\ sniper_resp = NoResp
  /\ cerebro_resp = NoResp
  /\ sniper_success = FALSE
  /\ cerebro_success = FALSE
  /\ payload = <<>>
  /\ ai_decisions = <<>>
  /\ reports = <<>>
  /\ exit_code = -1
  /\ in_score = 0
  /\ in_risk_score = 0
  /\ in_risk_level = "Low"
  /\ in_recommended = "none"
  /\ out_action = "idle"
  /\ batch = <<>>
  /\ req = <<>>
  /\ slots = <<>>
  /\ completion = <<>>
  /\ response = [sent |-> TRUE, ai_decisions |-> <<>>, summary |-> NoSummary]

NextSetup ==
  \/ CheckApiKey
  \/ AskDefault
  \/ ValidateStep
  \/ ListExisting
  \/ AskProceed
  \/ CreateStep
  \/ Summarize

SpecSetup == InitSetup /\ [][NextSetup]_vars

\* A run of test_weighted_signals.py.
InitTest ==
  /\ spc = "idle"
  /\ api_key = ""
  /\ webhook_base_url = DefaultBaseUrl
  /\ answer_default = Unasked
  /\ answer_proceed = Unasked
  /\ vidx = 1
  /\ validation_failed = FALSE
  /\ list_outcome = "unlisted"
  /\ cidx = 1
  /\ created_webhooks = <<>>
  /\ webhook_ids_file = NoFile
  /\ summary = [created |-> 0, failed |-> 0]
  /\ trace = <<>>
  /\ tpc = "health"
  /\ calls = <<>>
  /\ health_resp = <<NoResp, NoResp>>
  /\ sniper_resp = NoResp
  /\ cerebro_resp = NoResp
  /\ sniper_success = FALSE
  /\ cerebro_success = FALSE
  /\ payload = <<>>
  /\ ai_decisions = <<>>
  /\ reports = <<>>
  /\ exit_code = -1
  /\ in_score = 0
  /\ in_risk_score = 0
  /\ in_risk_level = "Low"
  /\ in_recommended = "none"
  /\ out_action = "idle"
  /\ batch = <<>>
  /\ req = <<>>
  /\ slots = <<>>
  /\ completion = <<>>
  /\ response = [sent |-> TRUE, ai_decisions |-> <<>>, summary |-> NoSummary]

NextTest ==
  \/ TestHealthChecks
  \/ TestSniperEngine
  \/ TestCerebroBff
  \/ TestSummary

SpecTest == InitTest /\ [][NextTest]_vars

\* One application of the classifier: to any triple of the grid, or to the
\* triple of a profile of the test payload with the action that profile carries.
InitClassify ==
  /\ spc = "idle"
  /\ api_key = ""
  /\ webhook_base_url = DefaultBaseUrl
  /\ answer_default = Unasked
  /\ answer_proceed = Unasked
  /\ vidx = 1
  /\ validation_failed = FALSE
  /\ list_outcome = "unlisted"
  /\ cidx = 1
  /\ created_webhooks = <<>>
  /\ webhook_ids_file = NoFile
  /\ summary = [created |-> 0, failed |-> 0]
  /\ trace = <<>>
  /\ tpc = "idle"
  /\ calls = <<>>
  /\ health_resp = <<NoResp, NoResp>>
  /\ sniper_resp = NoResp
  /\ cerebro_resp = NoResp
  /\ sniper_success = FALSE
  /\ cerebro_success = FALSE
  /\ payload = <<>>
  /\ ai_decisions = <<>>
  /\ reports = <<>>
  /\ exit_code = -1
  /\ \E t \in ClassifierInputs :
       /\ in_score = t.weighted_score
       /\ in_risk_score = t.risk_score
       /\ in_risk_level = t.risk_level
       /\ in_recommended = t.recommended_action
  /\ out_action = NotClassified
  /\ batch = <<>>
  /\ req = <<>>
  /\ slots = <<>>
  /\ completion = <<>>
  /\ response = [sent |-> TRUE, ai_decisions |-> <<>>, summary |-> NoSummary]

NextClassify ==
  \/ Classify

SpecClassify == InitClassify /\ [][NextClassify]_vars

\* One batch through the router.
InitRouter ==
  /\ spc = "idle"
  /\ api_key = ""
  /\ webhook_base_url = DefaultBaseUrl
  /\ answer_default = Unasked
  /\ answer_proceed = Unasked
  /\ vidx = 1
  /\ validation_failed = FALSE
  /\ list_outcome = "unlisted"
  /\ cidx = 1
  /\ created_webhooks = <<>>
  /\ webhook_ids_file = NoFile
  /\ summary = [created |-> 0, failed |-> 0]
  /\ trace = <<>>
  /\ tpc = "idle"
  /\ calls = <<>>
  /\ health_resp = <<NoResp, NoResp>>
  /\ sniper_resp = NoResp
  /\ cerebro_resp = NoResp
  /\ sniper_success = FALSE
  /\ cerebro_success = FALSE
  /\ payload = <<>>
  /\ ai_decisions = <<>>
  /\ reports = <<>>
  /\ exit_code = -1
  /\ in_score = 0
  /\ in_risk_score = 0
  /\ in_risk_level = "Low"
  /\ in_recommended = "none"
  /\ out_action = "idle"
  /\ batch \in Batches
  /\ req = [i \in 1..Len(batch) |-> "queued"]
  /\ slots = [i \in 1..Len(batch) |-> NoDecision]
  /\ completion = <<>>
  /\ response = [sent |-> FALSE, ai_decisions |-> <<>>, summary |-> NoSummary]

NextRouter ==
  \/ \E i \in Idx : Shed(i)
  \/ \E i \in Idx : Dispatch(i)
  \/ \E i \in Idx : Succeed(i)
  \/ \E i \in Idx : Timeout(i)
  \/ \E i \in Idx : Fail(i)
  \/ Respond

SpecRouter == InitRouter /\ [][NextRouter]_vars

(***************************************************************************)
(*              Properties of scripts/setup-helius-webhooks.py             *)
(***************************************************************************)

PostIdx == {k \in 1..Len(trace) : trace[k].op = "post"}

SleepIdx == {k \in 1..Len(trace) : trace[k].op = "sleep"}

\* The creation requests issued so far, as the sequence of their configs.
RECURSIVE PostedFrom(_)
PostedFrom(k) ==
  IF k > Len(trace) THEN <<>>
  ELSE IF trace[k].op = "post" THEN <<trace[k].cfg>> \o PostedFrom(k + 1)
  ELSE PostedFrom(k + 1)

\* The bodies of the creation requests that create_webhook reported as
\* created (HTTP 200, a body returned), in request order.
RECURSIVE SucceededFrom(_)
SucceededFrom(k) ==
  IF k > Len(trace) THEN <<>>
  ELSE IF trace[k].op = "post" /\ trace[k].res \in {"ok", "empty"}
       THEN <<Dict(IF trace[k].res = "ok" THEN {"webhookID", "webhookURL"} ELSE {},
                   trace[k].cfg)>> \o SucceededFrom(k + 1)
  ELSE SucceededFrom(k + 1)

AllConfigsInOrder == [i \in Configs |-> i]

\* C7 (as stated): webhook creation is "retry with sleep": at the end of a run
\* every failed creation has been retried after a sleep, and a sleep lies
\* between any two consecutive creation requests.
C7_RetryWithSleep ==
  spc = "done" =>
    /\ \A k \in PostIdx : trace[k].res # "ok" =>
         \E j \in PostIdx : /\ j > k
                            /\ trace[j].cfg = trace[k].cfg
                            /\ \E m \in SleepIdx : k < m /\ m < j
    /\ \A k \in PostIdx, j \in PostIdx : k < j =>
         \E m \in SleepIdx : k < m /\ m < j

\* C7 (amended): no creation is ever retried (each config is requested at
\* most once, and exactly once by the end of the run), a sleep follows
\* immediately every creation that main counts as created, and no sleep
\* follows a failed creation.
C7_SleepAfterSuccessOnly ==
  /\ \A k \in PostIdx, j \in PostIdx : k # j => trace[k].cfg # trace[j].cfg
  /\ spc = "done" => PostedFrom(1) = AllConfigsInOrder
  /\ \A k \in PostIdx : trace[k].res = "ok" =>
       k < Len(trace) /\ trace[k + 1].op = "sleep"
  /\ \A m \in SleepIdx :
       m > 1 /\ trace[m - 1].op = "post" /\ trace[m - 1].res = "ok"

\* C7 witness: a finished run in which a failed creation is followed at once
\* by the next creation request, and a successful one by a sleep.
C7_Witness ==
  /\ spc = "done"
  /\ \E k \in PostIdx : /\ trace[k].res = "non200"
                        /\ k < Len(trace)
                        /\ trace[k + 1].op = "post"
  /\ \E k \in PostIdx : trace[k].res = "ok" /\ trace[k + 1].op = "sleep"

\* What C8 says besides the consent gate: validation of every URL and the
\* listing precede the first creation; the run leaves with status 1 only at
\* the key check or the default-URL prompt, and with status 0 only at the
\* confirmation prompt; once the listing is done, whatever it and the
\* validations returned, the confirmation prompt is reached.
C8_OrderAndOffer ==
  /\ \A k \in PostIdx :
       /\ \A i \in Configs : \E v \in 1..(k - 1) :
            trace[v].op = "validate" /\ trace[v].cfg = i
       /\ \E l \in 1..(k - 1) : trace[l].op = "list"
  /\ spc = "exit1" => /\ trace = <<>>
                      /\ \/ api_key = ""
                         \/ /\ webhook_base_url = DefaultBaseUrl
                            /\ Lower(answer_default) # "y"
  /\ spc = "exit0" => answer_proceed # Unasked /\ Lower(answer_proceed) # "y"
  /\ list_outcome # "unlisted" =>
       /\ vidx = NumConfigs + 1
       /\ spc = "ask_proceed" \/ answer_proceed # Unasked

\* C8 (as stated): no creation POST unless the key is set, the user answered
\* 'y' at the default-URL prompt (when the URL is the default) and 'y' at the
\* confirmation prompt; validation and listing precede creation and their
\* failure never prevents creation from being offered.
C8_ConsentLiteralY ==
  /\ PostIdx # {} =>
       /\ api_key # ""
       /\ webhook_base_url = DefaultBaseUrl => answer_default = "y"
       /\ answer_proceed = "y"
  /\ C8_OrderAndOffer

\* C8 (amended): as stated, with the answers compared case-insensitively:
\* 'y' or 'Y' is consent at either prompt.
C8_ConsentBeforeCreation ==
  /\ PostIdx # {} =>
       /\ api_key # ""
       /\ webhook_base_url = DefaultBaseUrl => answer_default \in {"y", "Y"}
       /\ answer_proceed \in {"y", "Y"}
  /\ C8_OrderAndOffer

\* C8 witness: creation was requested after a failed validation and a failed
\* listing, under the default URL, the user having consented twice.
C8_Witness ==
  /\ PostIdx # {}
  /\ webhook_base_url = DefaultBaseUrl
  /\ validation_failed
  /\ list_outcome = "exception"
  /\ answer_default = "y"
  /\ answer_proceed = "Y"

\* C9 (as stated): at the end of a confirmed run every config was requested
\* exactly once in list order, created + failed = number of configs, and
\* webhook_ids.json exists iff some creation succeeded and then holds exactly
\* the successful responses in config order.
C9_AttemptAllSaveSucceeded ==
  spc = "done" =>
    /\ PostedFrom(1) = AllConfigsInOrder
    /\ summary.created + summary.failed = NumConfigs
    /\ webhook_ids_file.written <=> (SucceededFrom(1) # <<>>)
    /\ webhook_ids_file.written => webhook_ids_file.contents = SucceededFrom(1)

(***************************************************************************)
(*                  Properties of test_weighted_signals.py                 *)
(***************************************************************************)

DriverCalls ==
  <<"test_health_checks", "test_sniper_engine", "test_cerebro_bff_endpoint">>

\* C10: main calls the health checks, the sniper test and the Cerebro-BFF
\* test in that order, each once, whatever the earlier ones returned; it
\* returns 0 iff both tests returned True; a test returns True only on status
\* 200 and False on any other status or an exception; the health probes'
\* outcomes do not enter the exit code.
C10_DriverOrderAndExitCode ==
  /\ calls = SubSeq(DriverCalls, 1, Len(calls))
  /\ tpc \in {"summary", "done"} => calls = DriverCalls
  /\ tpc = "done" =>
       /\ exit_code \in {0, 1}
       /\ (exit_code = 0) <=> (sniper_success /\ cerebro_success)
       /\ sniper_success => sniper_resp.status = 200
       /\ cerebro_success => cerebro_resp.status = 200
       /\ sniper_resp.kind \in {"status", "exception"} => ~sniper_success
       /\ cerebro_resp.kind \in {"status", "exception"} => ~cerebro_success

\* C10 witness: the sniper test failed on a 500, the Cerebro-BFF test still
\* ran and passed, both health probes failed, and main returned 1.
C10_Witness ==
  /\ tpc = "done"
  /\ sniper_resp.status = 500 /\ ~sniper_success
  /\ cerebro_success
  /\ health_resp[1].kind = "exception" /\ health_resp[2].status = 500
  /\ exit_code = 1

HasSpecShape(e) == e \in {FlatSuccess, ErrorEntry}

ReportsAbout(i) == {k \in 1..Len(reports) : reports[k].idx = i}

\* No entry up to i makes the loop raise.
CleanUpTo(i) == \A j \in 1..i : ~Raises(ai_decisions[j])

Clamp(x, lo, hi) == IF x < lo THEN lo ELSE IF x > hi THEN hi ELSE x

\* One, in the millionths weighted_strength is counted in: the product of
\* three factors in hundredths.
UnitMillionths == 100 * 100 * 100

\* Every Signal of the payload sent, in signals or in top_signals.
SentSignals ==
  UNION { {payload[p].signals[k] : k \in 1..Len(payload[p].signals)}
          \cup {payload[p].top_signals[k] : k \in 1..Len(payload[p].top_signals)}
          : p \in 1..Len(payload) }

\* SignalWeighter: weighted_strength = clamp(strength x weight, 0, 1).
SignalWeighter(sig) == Clamp(sig.strength * sig.weight * 100, 0, UnitMillionths)

\* C2 (as stated): every Signal of the payload sent has weighted_strength in
\* [0,1] and equal to clamp(strength x weight, 0, 1).
C2_StrengthTimesWeight ==
  \A sig \in SentSignals :
    /\ 0 <= sig.weighted_strength /\ sig.weighted_strength <= UnitMillionths
    /\ sig.weighted_strength = SignalWeighter(sig)

\* C2 (amended): every Signal of the payload sent has weighted_strength in
\* [0,1] and equal to clamp(strength x confidence x weight, 0, 1): strength
\* 0.8, confidence 0.9 and weight 0.7 give 0.504.
C2_StrengthConfidenceWeight ==
  \A sig \in SentSignals :
    /\ 0 <= sig.weighted_strength /\ sig.weighted_strength <= UnitMillionths
    /\ sig.weighted_strength =
         Clamp(sig.strength * sig.confidence * sig.weight, 0, UnitMillionths)

\* C2 witness: the payload was sent with the signal of strength 0.8,
\* confidence 0.9, weight 0.7 and weighted_strength 0.504 in it.
C2_Witness ==
  \E sig \in SentSignals :
    /\ sig.strength = 80 /\ sig.confidence = 90 /\ sig.weight = 70
    /\ sig.weighted_strength = 504000

\* top_signals holds at most TopN signals.
TopN == 3

\* C3 (as stated): in every profile of the payload sent, top_signals is a
\* selection of the profile's own signals, holds at most N = 3 of them and
\* is sorted by descending weighted_strength.
C3_TopSignalsSelection ==
  \A p \in 1..Len(payload) :
    LET prof == payload[p] IN
      /\ \A k \in 1..Len(prof.top_signals) :
           \E j \in 1..Len(prof.signals) : prof.signals[j] = prof.top_signals[k]
      /\ Len(prof.top_signals) <= TopN
      /\ \A k \in 1..(Len(prof.top_signals) - 1) :
           prof.top_signals[k].weighted_strength
             >= prof.top_signals[k + 1].weighted_strength

(***************************************************************************)
(*                     Properties of ActionClassifier                      *)
(***************************************************************************)

\* C1: every triple is given exactly one RecommendedAction: Ignore under
\* High risk whatever the score; otherwise Ignore below 0.3, Monitor from 0.3
\* to below 0.6, SendToCerebro from 0.6 to below 0.85, and from 0.85 on
\* Execute under Low risk and SendToCerebro otherwise; exactly one score band
\* holds any score; the profile of the test payload carries the action the
\* classifier gives its triple.
C1_ClassifierTotalAndBanded ==
  out_action # NotClassified =>
    /\ out_action \in RecommendedActions
    /\ in_risk_level = "High" => out_action = "Ignore"
    /\ in_risk_level # "High" =>
         /\ in_score < 30 => out_action = "Ignore"
         /\ 30 <= in_score /\ in_score < 60 => out_action = "Monitor"
         /\ 60 <= in_score /\ in_score < 85 => out_action = "SendToCerebro"
         /\ in_score >= 85 /\ in_risk_level = "Low" => out_action = "Execute"
         /\ in_score >= 85 /\ in_risk_level # "Low" => out_action = "SendToCerebro"
    /\ Cardinality({k \in 2..NumRules :
                      RuleMatches(k, in_score, in_risk_score, in_risk_level)}) = 1
    /\ in_recommended # "none" => out_action = in_recommended

\* C1 witness: the triple of the test payload's profile (0.85, 0.25, Medium)
\* was classified, as SendToCerebro.
C1_Witness ==
  /\ in_recommended = "SendToCerebro"
  /\ in_score = 85 /\ in_risk_score = 25 /\ in_risk_level = "Medium"
  /\ out_action = "SendToCerebro"

(***************************************************************************)
(*                         Properties of AIRouter                          *)
(***************************************************************************)

MintsOf(ds) == [k \in 1..Len(ds) |-> ds[k].mint]

\* The mints of the requests that were not shed, in input order.
RECURSIVE KeptMintsFrom(_)
KeptMintsFrom(i) ==
  IF i > Len(batch) THEN <<>>
  ELSE IF req[i] = "dropped" THEN KeptMintsFrom(i + 1)
  ELSE <<batch[i]>> \o KeptMintsFrom(i + 1)

\* C4: whatever the completion order, the response holds as many decisions
\* as profiles were submitted less those dropped, every submitted mint
\* exactly once unless it was dropped (then not at all), in input order.
C4_BatchInvariant ==
  response.sent =>
    /\ Len(response.ai_decisions) = Len(batch) - response.summary.dropped
    /\ response.summary.dropped = Cardinality(Dropped)
    /\ \A i \in Idx :
         Cardinality({k \in 1..Len(response.ai_decisions) :
                        response.ai_decisions[k].mint = batch[i]})
           = IF req[i] = "dropped" THEN 0 ELSE 1
    /\ MintsOf(response.ai_decisions) = KeptMintsFrom(1)

\* C4 witness: a response for a batch of which one profile was dropped and
\* whose requests were settled in the reverse of the input order.
C4_Witness ==
  /\ response.sent
  /\ Dropped # {}
  /\ Len(completion) = 2
  /\ completion[1] > completion[2]

\* C6: a request that times out or fails yields an error decision for its
\* own mint and nothing else: every other request keeps the state and the
\* decision its own outcome gives it, the batch can always go
\* on until the response is assembled, and the response carries each request's
\* own decision.
C6_ErrorIsolation ==
  /\ \A i \in Idx :
       /\ req[i] = "timeout" => slots[i] = ErrorDecision(batch[i], "timeout")
       /\ req[i] = "failed" => slots[i] = ErrorDecision(batch[i], "upstream")
       /\ req[i] = "ok" => slots[i] = SuccessDecision(batch[i])
       /\ req[i] \in {"queued", "inflight", "dropped"} => slots[i] = NoDecision
  /\ Len(completion) = Cardinality({i \in Idx : req[i] \in {"ok", "timeout", "failed"}})
  /\ ~response.sent => ENABLED NextRouter
  /\ response.sent =>
       /\ response.summary.failed =
            Cardinality({i \in Idx : req[i] \in {"timeout", "failed"}})
       /\ response.summary.succeeded
            + response.summary.failed + response.summary.dropped = Len(batch)
       /\ \A i \in Idx : req[i] # "dropped" =>
            \E k \in 1..Len(response.ai_decisions) :
              response.ai_decisions[k] = slots[i]

\* C6 witness: a response in which one mint timed out and another, settled
\* after it, succeeded.
C6_Witness ==
  /\ response.sent
  /\ \E k, l \in 1..Len(completion) :
       /\ k < l
       /\ req[completion[k]] = "timeout"
       /\ req[completion[l]] = "ok"

====
